---- MODULE Spec2Model ----
(***************************************************************************)
(* Message synchronisation and trust engine of digitaltwin-lib:            *)
(*   - the signature chain of KeyService (sign / verify),                  *)
(*   - the inbound pipeline of MessageController.handleIncomingMessage     *)
(*     with ChatService.handleGroupAdmin (group fan-out),                   *)
(*   - the socket pipeline of ChatGateway.handleIncomingMessage,           *)
(*   - the read-receipt handlers (handleMessageRead, handleRead),          *)
(*   - the express message service (editMessage, editReply),               *)
(*   - ChatService.getChatMessages and the chat repository operations,     *)
(*   - the block list (block_chat / unblock_chat).                         *)
(***************************************************************************)
EXTENDS Naturals, Integers, Sequences, FiniteSets, TLC

VARIABLES
    sigMsg,     \* the message a signature chain is being built on
    sigOut,     \* outcome of the last KeyService call on sigMsg
    keyRepo,    \* the local node's key repository (_keyRepo), in insertion order
    blocked,    \* the blocked-contact repository, in insertion order
    chats,      \* the chat repository (_chatRepo): chatId -> stored chat
    contactRequests, \* pending contact records created from CONTACT_REQUEST messages
    http,       \* the inbound request MessageController.handleIncomingMessage is serving
    delivery,   \* per member: the state of the fan-out delivery to its location
    sock,       \* per socket event: the run of ChatGateway.handleIncomingMessage on it
    emitted,    \* the 'message' events emitted to the connected clients, in order
    legacyChat, \* the chat the express service's handleRead works on (read: a map)
    nestChat,   \* the chat ChatService.handleMessageRead works on (read: a list)
    receipts,   \* the READ receipts of one sender that are to arrive
    inbox,      \* per handler: the receipts that have not arrived yet
    edit,       \* the last operation of the express message service on legacyChat
    clock,      \* the wall clock new Date() reads
    query,      \* the last getChatMessages call and what it returned
    blockList,  \* the express service's block list (getBlocklist / persistBlocklist)
    blockOp,    \* the last block_chat / unblock_chat event handled
    blockEvents \* the 'chat_blocked' events emitted to the connected clients, in order

sigVars == <<sigMsg, sigOut>>

httpVars == <<blocked, chats, contactRequests, http, delivery>>

sockVars == <<sock, emitted>>

readVars == <<legacyChat, nestChat, receipts, inbox>>

editVars == <<edit, clock>>

pageVars == <<query>>

blockVars == <<blockList, blockOp, blockEvents>>

vars == <<sigMsg, sigOut, keyRepo, blocked, chats, contactRequests, http, delivery,
          sock, emitted, legacyChat, nestChat, receipts, inbox, edit, clock, query,
          blockList, blockOp, blockEvents>>

----------------------------------------------------------------------------
(* Bounds of the model.                                                     *)

\* longest signature chain built on one message
MaxChain == 2

\* largest number of entities in the key repository
MaxKeys == 3

\* largest number of entries in the blocked-contact repository
MaxBlocked == 2

\* number of socket 'message' events handled concurrently
NumTasks == 2

----------------------------------------------------------------------------
(* Identities and values.                                                   *)

\* configService.get('userId'): the local identity
userId == "m0"

Users == {"m0", "m1", "m2"}

\* the nodes that sign and are verified in the signature-chain scenario
Signers == {"m0", "m1"}

Bodies == {"hi", "yo"}

\* Key material of a user's key pair, as base64 strings.
PrivateKeyOf(u) == "sk_" \o u
PublicKeyOf(u) == "pk_" \o u

\* The empty string stands for missing key material (a falsy key).
NoKeyMaterial == ""

\* What search().return.first() yields when no entity matches.
NullKey == [userId |-> "", key |-> "", keyType |-> "null"]

\* A message DTO without signatures.
NewMessage(id, from, to, body, type, ts) ==
    [id |-> id, from |-> from, to |-> to, body |-> body, type |-> type,
     timeStamp |-> ts, signatures |-> <<>>]

BlankMessage == NewMessage("", "", "", "", "", 0)

\* The value of signatures[i] past the end of the list, and of an absent signature.
UndefinedSignature == [signer |-> "undefined", data |-> BlankMessage]

\* No KeyService call has been made on sigMsg yet.
NoSigOut ==
    [op |-> "none", outcome |-> "none", contact |-> "", signature |-> UndefinedSignature,
     fetched |-> NoKeyMaterial, entity |-> NullKey]

----------------------------------------------------------------------------
(* EncryptionService (signing primitives).                                  *)

\* createBase64Signature({ data, secretKey }): a signature binds the data to the
\* secret key that produced it.
createBase64Signature(data, secretKey) == [signer |-> secretKey, data |-> data]

\* verifySignature({ data, signature, publicKey }): valid iff the signature was
\* made over exactly this data with the secret key of the public key's pair.
verifySignature(data, signature, publicKey) ==
    /\ \E u \in Users : publicKey = PublicKeyOf(u) /\ signature.signer = PrivateKeyOf(u)
    /\ signature.data = data

----------------------------------------------------------------------------
(* KeyService.                                                              *)

\* Array.prototype.findIndex: 0-based index of the first match, -1 when none.
findIndex(seq, x) ==
    IF \E i \in 1..Len(seq) : seq[i] = x
    THEN (CHOOSE i \in 1..Len(seq) : seq[i] = x /\ \A j \in 1..(i - 1) : seq[j] # x) - 1
    ELSE -1

\* Array.prototype.slice(start, end) with 0-based start, end exclusive; a
\* negative index counts from the end of the array, and both are clamped to it.
slice(seq, start, end) ==
    LET len == Len(seq)
        k == IF start < 0 THEN (IF len + start < 0 THEN 0 ELSE len + start)
             ELSE (IF start > len THEN len ELSE start)
        final == IF end < 0 THEN (IF len + end < 0 THEN 0 ELSE len + end)
                 ELSE (IF end > len THEN len ELSE end)
    IN  IF k >= final THEN <<>> ELSE SubSeq(seq, k + 1, final)

\* _keyRepo.search()...return.first()
FirstKey(repo, uid, keyType) ==
    IF \E i \in 1..Len(repo) : repo[i].userId = uid /\ repo[i].keyType = keyType
    THEN repo[CHOOSE i \in 1..Len(repo) :
                /\ repo[i].userId = uid /\ repo[i].keyType = keyType
                /\ \A j \in 1..(i - 1) : ~(repo[j].userId = uid /\ repo[j].keyType = keyType)]
    ELSE NullKey

\* KeyService.getKey(keyType): the local user's key entity.
getKey(repo, keyType) == FirstKey(repo, userId, keyType)

\* KeyService.getPublicKeyByUserID(userID)
getPublicKeyByUserID(repo, uid) == FirstKey(repo, uid, "Public")

\* A Public key entity of the repository for contact c; key is the cached key
\* material, or NoKeyMaterial for an entity without any.
PublicEntity(c, key) == [userId |-> c, key |-> key, keyType |-> "Public"]

\* KeyService.addContactPublicKey({ key, userID })
addContactPublicKey(repo, key, uid) == Append(repo, PublicEntity(uid, key))

\* appendSignatureToMessage with the signature pushed at the end of the list
\* instead of unshifted onto its front.
appendSignatureToMessagePushed(message, privateEntity) ==
    IF privateEntity = NullKey
    THEN [outcome |-> "TypeError", message |-> message]
    ELSE IF privateEntity.key = NoKeyMaterial
    THEN [outcome |-> "undefined", message |-> message]
    ELSE [outcome |-> "signed",
          message |-> [message EXCEPT !.signatures =
                          @ \o <<createBase64Signature(message, privateEntity.key)>>]]

\* KeyService.appendSignatureToMessage(message), given the entity getKey(Private)
\* found.  Destructuring a null entity throws; a falsy key returns undefined; else
\* the signature over the message as it is now is unshifted onto its signatures.
appendSignatureToMessage(message, privateEntity) ==
    IF privateEntity = NullKey
    THEN [outcome |-> "TypeError", message |-> message]
    ELSE IF privateEntity.key = NoKeyMaterial
    THEN [outcome |-> "undefined", message |-> message]
    ELSE [outcome |-> "signed",
          message |-> [message EXCEPT !.signatures =
                          <<createBase64Signature(message, privateEntity.key)>> \o @]]

\* The data verifyMessageSignature checks a signature against: the message with
\* the signatures after signatureIdx.
messageWithoutSignature(message, signatureIdx) ==
    [message EXCEPT !.signatures =
        slice(message.signatures, signatureIdx + 1, Len(message.signatures))]

\* verifyMessageSignature with the signature checked against the data it was made
\* over instead of the message in hand: only the signer's key is verified.
verifyMessageSignatureSignerOnly(repo, contact, message, signature, fetched) ==
    LET signatureIdx == findIndex(message.signatures, signature)
        entity == getPublicKeyByUserID(repo, contact)
        key == IF entity.key # NoKeyMaterial THEN entity.key ELSE fetched
        repo2 == IF entity.key # NoKeyMaterial THEN repo
                 ELSE addContactPublicKey(repo, fetched, contact)
    IN  IF signatureIdx = 0
        THEN [result |-> "false", repo |-> repo]
        ELSE IF entity = NullKey
        THEN [result |-> "TypeError", repo |-> repo]
        ELSE IF entity.key = NoKeyMaterial /\ fetched = NoKeyMaterial
        THEN [result |-> "false", repo |-> repo]
        ELSE [result |->
                IF verifySignature(signature.data, signature, key)
                THEN "true" ELSE "false",
              repo |-> repo2]

\* KeyService.verifyMessageSignature({ contact, message, signature }).
\* fetched is what apiService.getContactPublicKey(contact.location) answers
\* (NoKeyMaterial: nothing).  Yields the result and the key repository afterwards.
verifyMessageSignature(repo, contact, message, signature, fetched) ==
    LET signatureIdx == findIndex(message.signatures, signature)
        entity == getPublicKeyByUserID(repo, contact)
        key == IF entity.key # NoKeyMaterial THEN entity.key ELSE fetched
        repo2 == IF entity.key # NoKeyMaterial THEN repo
                 ELSE addContactPublicKey(repo, fetched, contact)
    IN  IF signatureIdx = 0
        THEN [result |-> "false", repo |-> repo]
        ELSE IF entity = NullKey
        THEN [result |-> "TypeError", repo |-> repo]
        ELSE IF entity.key = NoKeyMaterial /\ fetched = NoKeyMaterial
        THEN [result |-> "false", repo |-> repo]
        ELSE [result |->
                IF verifySignature(messageWithoutSignature(message, signatureIdx),
                                   signature, key)
                THEN "true" ELSE "false",
              repo |-> repo2]

----------------------------------------------------------------------------
(* Chats and inbound messages.                                              *)

\* What search().return.first() yields when no chat matches.
NullChat ==
    [chatId |-> "", contacts |-> {}, messages |-> <<>>, adminId |-> "",
     isGroup |-> FALSE, read |-> <<>>]

GroupId == "g"

Rank(u) == CASE u = "m0" -> 0 [] u = "m1" -> 1 [] u = "m2" -> 2 [] OTHER -> 3

\* The chat id of the 1:1 chat of two users: the two ids in sorted order.
PairId(a, b) == IF Rank(a) <= Rank(b) THEN a \o "-" \o b ELSE b \o "-" \o a

ChatIds == {GroupId} \cup { PairId(userId, u) : u \in Users \ {userId} }

\* MessageService.determineChatID(message): the group a message is addressed to,
\* or the 1:1 chat of its two participants.
determineChatID(message) ==
    IF message.to \in Users THEN PairId(message.from, message.to) ELSE message.to

\* ChatService.getChat(chatId)
getChat(repo, chatId) == IF chatId \in DOMAIN repo THEN repo[chatId] ELSE NullChat

\* ChatService.removeContactFromChat({ chat, contactId }): the chat as saved.
removeContactFromChat(chat, contactId) ==
    [chat EXCEPT !.contacts = { c \in @ : c # contactId }]

\* BlockedContactService.getBlockedContactList({ offset, count }): one page of the
\* blocked-contact repository.
getBlockedContactList(repo, offset, count) ==
    slice(repo, IF offset < Len(repo) THEN offset ELSE Len(repo),
                IF offset + count < Len(repo) THEN offset + count ELSE Len(repo))

\* blockedContacts.find(c => c.id === message.from)
isBlocked(blockedContacts, from) ==
    \E i \in 1..Len(blockedContacts) : blockedContacts[i] = from

\* MessageService.verifySignedMessage({ isGroup: false, adminContact: null,
\* fromContact, signedMessage }): the sender's signature (the oldest of the chain)
\* is verified against the sender contact; no contact, no verification.
verifySignedMessage(repo, fromContactFound, message, fetched) ==
    IF ~fromContactFound
    THEN [result |-> "false", repo |-> repo]
    ELSE verifyMessageSignature(
            repo, message.from, message,
            IF Len(message.signatures) = 0 THEN UndefinedSignature
            ELSE message.signatures[Len(message.signatures)],
            fetched)

\* The SYSTEM sender check left out: every sender is let through.
systemSenderAllowedAnySender(message, chat) == TRUE

\* handleIncomingMessage, line 57: a SYSTEM message is let through only when its
\* sender is the admin of the chat.
systemSenderAllowed(message, chat) ==
    ~(message.type = "SYSTEM" /\ chat.adminId # message.from)

\* The types MessageController registers a handler for (_messageStateHandlers).
RegisteredTypes == {"CONTACT_REQUEST", "SYSTEM"}

MessageTypes == {"STRING", "SYSTEM", "CONTACT_REQUEST"}

\* The body of a message of a type: text, or for SYSTEM the member to remove.
BodyOf(type) == IF type = "SYSTEM" THEN "m2" ELSE "hi"

\* The signature chains an inbound message may arrive with: none; the sender's
\* own signature; the sender's signature under a relay's; a relay's signature
\* over a signature the sender did not make.
SignedBy(message, u) ==
    [message EXCEPT !.signatures = <<createBase64Signature(message, PrivateKeyOf(u))>> \o @]

Other(u) == IF u = "m1" THEN "m2" ELSE "m1"

Chains(message) ==
    { message,
      SignedBy(message, message.from),
      SignedBy(SignedBy(message, message.from), Other(message.from)),
      SignedBy(SignedBy(message, Other(message.from)), Other(message.from)) }

Senders == {"m1", "m2"}

InboundMessages ==
    UNION { Chains(NewMessage("7", f, t, BodyOf(ty), ty, 3)) :
              f \in Senders, t \in {GroupId, userId}, ty \in MessageTypes }

\* The sender's signature on an inbound message is valid: the oldest signature of
\* the chain was made by the sender's private key over the unsigned message.
SenderSignatureValid(message) ==
    /\ Len(message.signatures) > 0
    /\ message.signatures[Len(message.signatures)] =
          createBase64Signature([message EXCEPT !.signatures = <<>>],
                                PrivateKeyOf(message.from))

\* @Query('offset') offset = 0 and @Query('count') count = 25
DefaultOffset == 0
DefaultCount == 25

Offsets == {DefaultOffset, 1}
Counts == {1, DefaultCount}

----------------------------------------------------------------------------
(* ChatGateway.handleIncomingMessage (socket 'message') and the ChatService  *)
(* operations it calls.                                                     *)

Tasks == 1..NumTasks

\* stringifyMessage(message): the JSON text of a message, and its parse.
stringifyMessage(message) == <<"json", message>>
parseStoredMessage(text) == text[2]

\* Chat.parseMessages()
parseMessages(chat) == [i \in 1..Len(chat.messages) |-> parseStoredMessage(chat.messages[i])]

\* ChatService.addMessageToChat({ chat, message }): the chat as saved.
addMessageToChat(chat, message) ==
    [chat EXCEPT !.messages = Append(@, stringifyMessage(message))]

\* chatMessages.find(m => m.id === id): the message, or BlankMessage for undefined.
findMessage(chatMessages, id) ==
    IF \E i \in 1..Len(chatMessages) : chatMessages[i].id = id
    THEN chatMessages[CHOOSE i \in 1..Len(chatMessages) :
                        /\ chatMessages[i].id = id
                        /\ \A j \in 1..(i - 1) : chatMessages[j].id # id]
    ELSE BlankMessage

\* ChatService.handleMessageRead(message) on the chat getChat returned: the
\* outcome and the chat as saved ("none": nothing is saved).
handleMessageRead(chat, message) ==
    LET chatMessages == parseMessages(chat)
        newRead == findMessage(chatMessages, message.body)
        oldIdx == findIndex(chat.read, message.from)
        oldRead == findMessage(chatMessages, chat.read[oldIdx + 1])
    IN  IF oldIdx > -1
        THEN IF newRead = BlankMessage \/ oldRead = BlankMessage
             THEN [outcome |-> "TypeError", chat |-> chat]
             ELSE IF ~(newRead.timeStamp < oldRead.timeStamp)
             THEN [outcome |-> "saved",
                   chat |-> [chat EXCEPT !.read[oldIdx + 1] = message.body]]
             ELSE [outcome |-> "none", chat |-> chat]
        ELSE [outcome |-> "none", chat |-> chat]

\* client: the `from` of the message as the client sent it.
SockIdle ==
    [pc |-> "idle", msg |-> BlankMessage, signed |-> "none", chat |-> NullChat,
     outcome |-> "none", client |-> ""]

SockIdleInit ==
    /\ sock = [t \in Tasks |-> SockIdle]
    /\ emitted = <<>>

\* The express service's chat: messages are objects, read maps a user id to the
\* id of the last message that user has read ("": no entry).
NullLegacyChat == [messages |-> <<>>, read |-> [u \in Users |-> ""]]

\* handleRead that also pushes the receipt onto the log, as is done for a message
\* of any other type.
handleReadLogged(chat, message) ==
    LET newRead == findMessage(chat.messages, message.body)
        oldRead == findMessage(chat.messages, chat.read[message.from])
    IN  IF /\ oldRead # BlankMessage
           /\ newRead # BlankMessage
           /\ newRead.timeStamp < oldRead.timeStamp
        THEN [outcome |-> "none", chat |-> chat]
        ELSE [outcome |-> "persisted",
              chat |-> [chat EXCEPT !.read[message.from] = message.body,
                                    !.messages = Append(@, message)]]

\* handleRead(message) of the express message service, on the chat getChat
\* returned: whether a chat is persisted and the event emitted, and the chat.
handleRead(chat, message) ==
    LET newRead == findMessage(chat.messages, message.body)
        oldRead == findMessage(chat.messages, chat.read[message.from])
    IN  IF /\ oldRead # BlankMessage
           /\ newRead # BlankMessage
           /\ newRead.timeStamp < oldRead.timeStamp
        THEN [outcome |-> "none", chat |-> chat]
        ELSE [outcome |-> "persisted",
              chat |-> [chat EXCEPT !.read[message.from] = message.body]]

ReadIdleInit ==
    /\ legacyChat = NullLegacyChat
    /\ nestChat = NullChat
    /\ receipts = {}
    /\ inbox = [legacy |-> {}, nest |-> {}]

\* No operation of the express message service has run yet.
EditIdle == [op |-> "none", msg |-> BlankMessage, before |-> NullLegacyChat,
             outcome |-> "none", repeat |-> FALSE]

EditIdleInit ==
    /\ edit = EditIdle
    /\ clock = 0

\* No getChatMessages call has been made yet.
QueryIdle == [op |-> "none", log |-> <<>>, from |-> "", page |-> -1, limit |-> 0,
              result |-> [hasMore |-> FALSE, messages |-> <<>>]]

PageIdleInit == query = QueryIdle

\* No block_chat or unblock_chat event has been handled yet.
BlockIdle == [event |-> "none", side |-> "none", id |-> ""]

BlockIdleInit ==
    /\ blockList = <<>>
    /\ blockOp = BlockIdle
    /\ blockEvents = <<>>

----------------------------------------------------------------------------
(* MessageController.handleIncomingMessage and ChatService.handleGroupAdmin. *)

HttpIdle ==
    [pc |-> "idle", msg |-> BlankMessage, chat |-> NullChat, outcome |-> "none",
     signed |-> "none", dispatched |-> "none", wasBlocked |-> FALSE,
     validSignature |-> "none",
     before |-> [chats |-> <<>>, contactRequests |-> {}]]

NoDelivery == [u \in Users |-> "none"]

HttpIdleInit ==
    /\ blocked = <<>>
    /\ chats = [c \in ChatIds |-> NullChat]
    /\ contactRequests = {}
    /\ http = HttpIdle
    /\ delivery = NoDelivery

\* The key repositories of the local node: its private entity (none, without key
\* material, or its key) followed by the public entities of its contacts.
LocalKeyRepos ==
    { pr \o pu :
        pr \in { <<>>,
                 <<[userId |-> userId, key |-> NoKeyMaterial, keyType |-> "Private"]>>,
                 <<[userId |-> userId, key |-> PrivateKeyOf(userId), keyType |-> "Private"]>> },
        pu \in { <<>>,
                 <<PublicEntity("m1", NoKeyMaterial)>>,
                 <<PublicEntity("m1", PublicKeyOf("m1")), PublicEntity("m2", PublicKeyOf("m2"))>> } }

\* The node holds a group chat (admin: the node itself or m1) and the 1:1 chat
\* with m1; it has no chat with m2.
HttpInit ==
    /\ sigMsg = BlankMessage
    /\ sigOut = NoSigOut
    /\ keyRepo \in LocalKeyRepos
    /\ blocked = <<>>
    /\ \E admin \in {userId, "m1"} :
          chats = [c \in ChatIds |->
                     IF c = GroupId
                     THEN [NullChat EXCEPT !.chatId = GroupId, !.contacts = Users,
                                           !.adminId = admin, !.isGroup = TRUE]
                     ELSE IF c = PairId(userId, "m1")
                     THEN [NullChat EXCEPT !.chatId = c, !.contacts = {userId, "m1"},
                                           !.adminId = "m1"]
                     ELSE NullChat]
    /\ contactRequests = {}
    /\ http = HttpIdle
    /\ delivery = NoDelivery
    /\ SockIdleInit
    /\ BlockIdleInit
    /\ EditIdleInit
    /\ PageIdleInit
    /\ ReadIdleInit

\* ChatGateway.handleBlockChat(id): the id is added to the blocked contacts and
\* 'chat_blocked' is emitted to the connected clients.
handleBlockChat(id) ==
    /\ Len(blocked) < MaxBlocked
    /\ blocked' = Append(blocked, id)
    /\ blockOp' = [event |-> "block_chat", side |-> "nest", id |-> id]
    /\ blockEvents' = Append(blockEvents, [side |-> "nest", id |-> id])
    /\ UNCHANGED <<blockList, editVars, pageVars, sigVars, sockVars, readVars, keyRepo, chats, contactRequests, http, delivery>>

\* handleIncomingMessage, lines 50-61: the blocked-contact check on one page of
\* the blocked list, chat resolution, the SYSTEM sender check, and the branch
\* into handleGroupAdmin.
HttpAdmit(message, offset, count) ==
    /\ http.pc = "idle"
    /\ LET blockedContacts == getBlockedContactList(blocked, offset, count)
           chat == getChat(chats, determineChatID(message))
           start == [HttpIdle EXCEPT !.msg = message,
                                     !.before = [chats |-> chats,
                                                 contactRequests |-> contactRequests],
                                     !.wasBlocked = isBlocked(blocked, message.from)]
       IN  http' =
             IF isBlocked(blockedContacts, message.from)
             THEN [start EXCEPT !.pc = "done", !.outcome = "Blocked"]
             ELSE IF chat = NullChat
             THEN [start EXCEPT !.pc = "done", !.outcome = "TypeError"]
             ELSE IF ~systemSenderAllowed(message, chat)
             THEN [start EXCEPT !.pc = "done", !.outcome = "Unauthorized", !.chat = chat]
             ELSE IF chat.isGroup /\ chat.adminId = userId
             THEN [start EXCEPT !.pc = "groupAdmin", !.chat = chat]
             ELSE [start EXCEPT !.pc = "handle", !.chat = chat]
    /\ UNCHANGED <<blockVars, editVars, pageVars, sigVars, sockVars, readVars, keyRepo, blocked, chats, contactRequests, delivery>>

\* handleGroupAdmin without the throw on a failed verification: the message is
\* signed and sent whatever verifySignedMessage answered.
handleGroupAdminUnverified(repo, chat, message, fetched) ==
    LET v == verifySignedMessage(repo, message.from \in chat.contacts, message, fetched)
        s == appendSignatureToMessage(message, getKey(v.repo, "Private"))
    IN  [validSignature |-> v.result,
         repo |-> v.repo,
         outcome |-> IF v.result = "TypeError" THEN "TypeError"
                     ELSE IF s.outcome = "TypeError" THEN "TypeError"
                     ELSE "send",
         signed |-> s.outcome,
         signedMessage |-> s.message,
         receivingContacts |-> { c \in chat.contacts : c # userId }]

\* ChatService.handleGroupAdmin({ chat, message }) up to the start of the
\* deliveries: the sender's signature is verified against the sender contact (a
\* failed verification throws), the node signs the message, and the receiving
\* contacts are all contacts but the node itself.
handleGroupAdmin(repo, chat, message, fetched) ==
    LET v == verifySignedMessage(repo, message.from \in chat.contacts, message, fetched)
        s == appendSignatureToMessage(message, getKey(v.repo, "Private"))
    IN  [validSignature |-> v.result,
         repo |-> v.repo,
         outcome |-> IF v.result = "TypeError" THEN "TypeError"
                     ELSE IF v.result = "false" THEN "VerificationFailed"
                     ELSE IF s.outcome = "TypeError" THEN "TypeError"
                     ELSE "send",
         signed |-> s.outcome,
         signedMessage |-> s.message,
         receivingContacts |-> { c \in chat.contacts : c # userId }]

\* handleIncomingMessage, line 61: handleGroupAdmin runs up to Promise.all; a
\* delivery to every receiving contact is started.
HttpGroupAdmin(fetched) ==
    /\ http.pc = "groupAdmin"
    /\ LET r == handleGroupAdmin(keyRepo, http.chat, http.msg, fetched)
       IN  /\ Len(r.repo) <= MaxKeys
           /\ keyRepo' = r.repo
           /\ IF r.outcome # "send"
              THEN /\ http' = [http EXCEPT !.pc = "done", !.outcome = r.outcome,
                                           !.validSignature = r.validSignature]
                   /\ UNCHANGED delivery
              ELSE /\ http' = [http EXCEPT !.pc = IF r.receivingContacts = {} THEN "handle"
                                                  ELSE "fanout",
                                           !.validSignature = r.validSignature,
                                           !.signed = r.signed,
                                           !.msg = r.signedMessage]
                   /\ delivery' = [u \in Users |->
                                     IF u \in r.receivingContacts THEN "pending" ELSE "none"]
    /\ UNCHANGED <<blockVars, editVars, pageVars, sigVars, sockVars, readVars, blocked, chats, contactRequests>>

\* apiService.sendMessageToApi to member c answers.  When it is the last one and
\* none failed, Promise.all resolves and handleIncomingMessage goes on to line 63.
DeliverAck(c) ==
    /\ delivery[c] = "pending"
    /\ delivery' = [delivery EXCEPT ![c] = "ack"]
    /\ http' = IF http.pc = "fanout" /\ \A u \in Users \ {c} : delivery[u] \in {"none", "ack"}
               THEN [http EXCEPT !.pc = "handle"]
               ELSE http
    /\ UNCHANGED <<blockVars, editVars, pageVars, sigVars, sockVars, readVars, keyRepo, blocked, chats, contactRequests>>

\* apiService.sendMessageToApi to member c fails.  Promise.all rejects with the
\* first failure, and the exception leaves handleGroupAdmin and the controller.
DeliverFail(c) ==
    /\ delivery[c] = "pending"
    /\ delivery' = [delivery EXCEPT ![c] = "error"]
    /\ http' = IF http.pc = "fanout"
               THEN [http EXCEPT !.pc = "done", !.outcome = "TransportError"]
               ELSE http
    /\ UNCHANGED <<blockVars, editVars, pageVars, sigVars, sockVars, readVars, keyRepo, blocked, chats, contactRequests>>

\* handleIncomingMessage, line 63: the handler registered for the type handles the
\* message; a type without handler makes the call on undefined throw.
\* ContactRequestMessageState records a pending contact for the sender;
\* SystemMessageState removes the member the body names from the chat.  Both
\* reject a message whose sender signature does not verify; a message that
\* handleGroupAdmin has verified is not verified again.
HttpHandle(fetched) ==
    /\ http.pc = "handle"
    /\ LET v == IF http.validSignature = "true"
                THEN [result |-> "true", repo |-> keyRepo]
                ELSE verifySignedMessage(keyRepo, http.msg.from \in http.chat.contacts,
                                         http.msg, fetched)
       IN  IF http.msg.type \notin RegisteredTypes
           THEN /\ http' = [http EXCEPT !.pc = "done", !.outcome = "TypeError"]
                /\ UNCHANGED <<keyRepo, chats, contactRequests>>
           ELSE /\ Len(v.repo) <= MaxKeys
                /\ keyRepo' = v.repo
                /\ IF v.result # "true"
                   THEN /\ http' = [http EXCEPT !.pc = "done", !.dispatched = http.msg.type,
                                          !.validSignature = v.result,
                                          !.outcome = IF v.result = "false"
                                                      THEN "VerificationFailed"
                                                      ELSE "TypeError"]
                        /\ UNCHANGED <<chats, contactRequests>>
                   ELSE /\ http' = [http EXCEPT !.pc = "done", !.dispatched = http.msg.type,
                                                !.validSignature = v.result,
                                                !.outcome = "ok"]
                        /\ IF http.msg.type = "SYSTEM"
                           THEN /\ chats' = [chats EXCEPT ![http.chat.chatId] =
                                               removeContactFromChat(http.chat, http.msg.body)]
                                /\ UNCHANGED contactRequests
                           ELSE /\ contactRequests' = contactRequests \cup {http.msg.from}
                                /\ UNCHANGED chats
    /\ UNCHANGED <<blockVars, editVars, pageVars, sigVars, sockVars, readVars, blocked, delivery>>

\* The request is answered and every delivery it started has ended; the
\* controller is ready for the next request.
HttpFinish ==
    /\ http.pc = "done"
    /\ \A u \in Users : delivery[u] # "pending"
    /\ http' = HttpIdle
    /\ delivery' = NoDelivery
    /\ UNCHANGED <<blockVars, editVars, pageVars, sigVars, sockVars, readVars, keyRepo, blocked, chats, contactRequests>>

Next ==
    \/ \E id \in Senders : handleBlockChat(id)
    \/ \E m \in InboundMessages : \E o \in Offsets : \E n \in Counts : HttpAdmit(m, o, n)
    \/ \E f \in {NoKeyMaterial, PublicKeyOf(http.msg.from)} : HttpGroupAdmin(f)
    \/ \E c \in Users : DeliverAck(c)
    \/ \E c \in Users : DeliverFail(c)
    \/ \E f \in {NoKeyMaterial, PublicKeyOf(http.msg.from)} : HttpHandle(f)
    \/ HttpFinish

Spec == HttpInit /\ [][Next]_vars

----------------------------------------------------------------------------
(* The socket pipeline: concurrent 'message' events of the local client.    *)

\* Messages already in the log of the 1:1 chat with m1.
LogMessages ==
    << NewMessage("a", "m1", userId, "hi", "STRING", 1),
       NewMessage("b", "m1", userId, "yo", "STRING", 2) >>

\* What a client may send in a 'message' event of task t: any sender, a chat
\* partner with or without chat, a text, a READ receipt or a SYSTEM message.
SocketMessages(t) ==
    { NewMessage(IF t = 1 THEN "s1" ELSE IF t = 2 THEN "s2" ELSE "s3",
                 f, to, IF ty = "READ" THEN b ELSE "hi", ty, 3 + t) :
        f \in {userId, "m1"}, to \in {"m1", "m2"}, ty \in {"STRING", "READ", "SYSTEM"},
        b \in {"a", "b"} }

SockInit ==
    /\ sigMsg = BlankMessage
    /\ sigOut = NoSigOut
    /\ keyRepo \in { <<>>,
                     <<[userId |-> userId, key |-> NoKeyMaterial, keyType |-> "Private"]>>,
                     <<[userId |-> userId, key |-> PrivateKeyOf(userId), keyType |-> "Private"]>> }
    /\ blocked = <<>>
    /\ \E rd \in { <<>>, <<userId>>, <<"a">> } :
          chats = [c \in ChatIds |->
                     IF c = PairId(userId, "m1")
                     THEN [NullChat EXCEPT !.chatId = c, !.contacts = {userId, "m1"},
                                           !.adminId = "m1", !.read = rd,
                                           !.messages = [i \in 1..Len(LogMessages) |->
                                                           stringifyMessage(LogMessages[i])]]
                     ELSE NullChat]
    /\ contactRequests = {}
    /\ http = HttpIdle
    /\ delivery = NoDelivery
    /\ SockIdleInit
    /\ BlockIdleInit
    /\ EditIdleInit
    /\ PageIdleInit
    /\ ReadIdleInit

\* handleIncomingMessage without line 46: the `from` the client sent is kept.
SockReceiveClientFrom(t, message) ==
    /\ sock[t].pc = "idle"
    /\ LET m == message
           s == appendSignatureToMessage(m, getKey(keyRepo, "Private"))
           chat == getChat(chats, userId \o "-" \o m.to)
       IN  sock' = [sock EXCEPT ![t] =
                IF s.outcome = "TypeError"
                THEN [SockIdle EXCEPT !.pc = "done", !.msg = m, !.outcome = "TypeError",
                                      !.client = message.from]
                ELSE [SockIdle EXCEPT !.pc = "resolved", !.msg = s.message,
                                      !.signed = s.outcome, !.chat = chat,
                                      !.client = message.from]]
    /\ UNCHANGED <<blockVars, editVars, pageVars, sigVars, readVars, keyRepo, httpVars, emitted>>

\* handleIncomingMessage, lines 46-52: from is set to the local user, the message
\* is signed, and the chat `${from}-${to}` is read from the repository.
SockReceive(t, message) ==
    /\ sock[t].pc = "idle"
    /\ LET m == [message EXCEPT !.from = userId]
           s == appendSignatureToMessage(m, getKey(keyRepo, "Private"))
           chat == getChat(chats, m.from \o "-" \o m.to)
       IN  sock' = [sock EXCEPT ![t] =
                IF s.outcome = "TypeError"
                THEN [SockIdle EXCEPT !.pc = "done", !.msg = m, !.outcome = "TypeError",
                                      !.client = message.from]
                ELSE [SockIdle EXCEPT !.pc = "resolved", !.msg = s.message,
                                      !.signed = s.outcome, !.chat = chat,
                                      !.client = message.from]]
    /\ UNCHANGED <<blockVars, editVars, pageVars, sigVars, readVars, keyRepo, httpVars, emitted>>

\* handleIncomingMessage, lines 53-67, on the chat that was read: no chat, return;
\* an undefined signedMessage throws; a READ is emitted and handed to
\* handleMessageRead, which reads the chat again; any other message is emitted
\* and addMessageToChat saves the chat that was read with the message pushed.
SockContinue(t) ==
    /\ sock[t].pc = "resolved"
    /\ IF sock[t].chat = NullChat
       THEN /\ sock' = [sock EXCEPT ![t].pc = "done", ![t].outcome = "no chat"]
            /\ UNCHANGED <<chats, emitted>>
       ELSE IF sock[t].signed = "undefined"
       THEN /\ sock' = [sock EXCEPT ![t].pc = "done", ![t].outcome = "TypeError"]
            /\ UNCHANGED <<chats, emitted>>
       ELSE IF sock[t].msg.type = "READ"
       THEN /\ emitted' = Append(emitted, sock[t].msg.id)
            /\ sock' = [sock EXCEPT ![t].pc = "read",
                                    ![t].chat = getChat(chats, determineChatID(sock[t].msg))]
            /\ UNCHANGED chats
       ELSE /\ emitted' = Append(emitted, sock[t].msg.id)
            /\ chats' = [chats EXCEPT ![sock[t].chat.chatId] =
                           addMessageToChat(sock[t].chat, sock[t].msg)]
            /\ sock' = [sock EXCEPT ![t].pc = "done", ![t].outcome = "persisted"]
    /\ UNCHANGED <<blockVars, editVars, pageVars, sigVars, readVars, keyRepo, blocked, contactRequests, http, delivery>>

\* handleMessageRead, lines 195-205, on the chat it read.
SockRead(t) ==
    /\ sock[t].pc = "read"
    /\ IF sock[t].chat = NullChat
       THEN /\ sock' = [sock EXCEPT ![t].pc = "done", ![t].outcome = "TypeError"]
            /\ UNCHANGED chats
       ELSE LET r == handleMessageRead(sock[t].chat, sock[t].msg)
            IN  /\ sock' = [sock EXCEPT ![t].pc = "done", ![t].outcome = "read " \o r.outcome]
                /\ chats' = IF r.outcome = "saved"
                            THEN [chats EXCEPT ![sock[t].chat.chatId] = r.chat]
                            ELSE chats
    /\ UNCHANGED <<blockVars, editVars, pageVars, sigVars, readVars, keyRepo, blocked, contactRequests, http, delivery, emitted>>

SockNext ==
    \/ \E t \in Tasks : \E m \in SocketMessages(t) : SockReceive(t, m)
    \/ \E t \in Tasks : SockContinue(t)
    \/ \E t \in Tasks : SockRead(t)

SpecSock == SockInit /\ [][SockNext]_vars

----------------------------------------------------------------------------
(* Read receipts: the receipts of one sender arrive in any order.           *)

\* The log the receipts refer to; "b" and "c" carry the same time stamp.
ReadLog ==
    << NewMessage("a", userId, "m1", "hi", "STRING", 1),
       NewMessage("b", userId, "m1", "yo", "STRING", 2),
       NewMessage("c", userId, "m1", "hi", "STRING", 2),
       NewMessage("d", userId, "m1", "yo", "STRING", 3) >>

ReadSender == "m1"

\* The READ receipt of the sender for the message with id target.
Receipt(target) == NewMessage("r-" \o target, ReadSender, userId, target, "READ", 9)

LogIds == { ReadLog[i].id : i \in 1..Len(ReadLog) }

ReadInit ==
    /\ sigMsg = BlankMessage
    /\ sigOut = NoSigOut
    /\ keyRepo = <<>>
    /\ HttpIdleInit
    /\ SockIdleInit
    /\ BlockIdleInit
    /\ EditIdleInit
    /\ PageIdleInit
    /\ \E cursor \in {"", "a", "d", "gone"} :
          legacyChat = [messages |-> ReadLog,
                        read |-> [u \in Users |-> IF u = ReadSender THEN cursor ELSE ""]]
    /\ \E rd \in { <<>>, <<ReadSender>>, <<"a">> } :
          nestChat = [NullChat EXCEPT !.chatId = PairId(userId, ReadSender),
                                      !.contacts = {userId, ReadSender},
                                      !.adminId = ReadSender, !.read = rd,
                                      !.messages = [i \in 1..Len(ReadLog) |->
                                                      stringifyMessage(ReadLog[i])]]
    /\ \E targets \in (SUBSET LogIds) \ {{}} :
          /\ receipts = { Receipt(x) : x \in targets }
          /\ inbox = [legacy |-> receipts, nest |-> receipts]

\* A receipt arrives at the express service: handleRead.
LegacyRead(r) ==
    /\ r \in inbox.legacy
    /\ LET h == handleRead(legacyChat, r)
       IN  /\ legacyChat' = h.chat
           /\ emitted' = IF h.outcome = "persisted" THEN Append(emitted, r.id) ELSE emitted
    /\ inbox' = [inbox EXCEPT !.legacy = @ \ {r}]
    /\ UNCHANGED <<blockVars, editVars, pageVars, sigVars, keyRepo, httpVars, sock, nestChat, receipts>>

\* A receipt arrives at the Nest service: handleMessageRead.
NestRead(r) ==
    /\ r \in inbox.nest
    /\ LET h == handleMessageRead(nestChat, r)
       IN  nestChat' = IF h.outcome = "saved" THEN h.chat ELSE nestChat
    /\ inbox' = [inbox EXCEPT !.nest = @ \ {r}]
    /\ UNCHANGED <<blockVars, editVars, pageVars, sigVars, keyRepo, httpVars, sockVars, legacyChat, receipts>>

ReadNext ==
    \/ \E r \in receipts : LegacyRead(r)
    \/ \E r \in receipts : NestRead(r)

SpecRead == ReadInit /\ [][ReadNext]_vars

----------------------------------------------------------------------------
(* The express message service: editMessage, editReply, handleRead on one   *)
(* chat, one operation after the other.                                     *)

\* latest instant the wall clock reaches
MaxClock == 2

\* longest message log built by appending
MaxLog == 3

\* A message of the express service: the DTO fields and replies, subject ("":
\* undefined) and updated (0: undefined).
LegacyMessage(id, from, body, type, ts, replies, subject) ==
    [id |-> id, from |-> from, to |-> userId, body |-> body, type |-> type,
     timeStamp |-> ts, signatures |-> <<>>, replies |-> replies,
     subject |-> subject, updated |-> 0]

\* parseMessage(msg): a Message built from the fields of msg, its replies parsed
\* in turn; a FILE_UPLOAD becomes a FILE whose body is the file name.
RECURSIVE parseMessage(_)
parseMessage(msg) ==
    [id |-> msg.id, from |-> msg.from, to |-> msg.to,
     body |-> IF msg.type = "FILE_UPLOAD" THEN [filename |-> msg.body.name] ELSE msg.body,
     type |-> IF msg.type = "FILE_UPLOAD" THEN "FILE" ELSE msg.type,
     timeStamp |-> msg.timeStamp, signatures |-> msg.signatures,
     replies |-> [i \in 1..Len(msg.replies) |-> parseMessage(msg.replies[i])],
     subject |-> msg.subject, updated |-> msg.updated]

\* messages.findIndex(mes => mes.id === id): 0-based, -1 when none.
findIndexById(messages, id) ==
    IF \E i \in 1..Len(messages) : messages[i].id = id
    THEN (CHOOSE i \in 1..Len(messages) :
            messages[i].id = id /\ \A j \in 1..(i - 1) : messages[j].id # id) - 1
    ELSE -1

\* editReply(chatId, newMessage) on the chat getChat returned, at instant now.
editReply(chat, newMessage, now) ==
    LET messageIndex == findIndexById(chat.messages, newMessage.subject)
        replyIndex == findIndexById(chat.messages[messageIndex + 1].replies, newMessage.id)
    IN  IF messageIndex = -1 THEN [outcome |-> "none", chat |-> chat]
        ELSE IF replyIndex = -1 THEN [outcome |-> "none", chat |-> chat]
        ELSE [outcome |-> "persisted",
              chat |-> [chat EXCEPT !.messages[messageIndex + 1].replies[replyIndex + 1] =
                                       [@ EXCEPT !.body = newMessage.body, !.updated = now]]]

\* editMessage(chatId, newMessage) on the chat getChat returned, at instant now.
\* An assignment to chat.messages[-1] adds no element to the log; an assignment
\* to a field of chat.messages[-1] throws.
editMessage(chat, newMessage, now) ==
    IF newMessage.subject # "" THEN editReply(chat, newMessage, now)
    ELSE IF newMessage.type = "DELETE"
    THEN LET index == findIndexById(chat.messages, newMessage.id)
         IN  IF index = -1 THEN [outcome |-> "TypeError", chat |-> chat]
             ELSE [outcome |-> "persisted",
                   chat |-> [chat EXCEPT !.messages[index + 1] =
                                [@ EXCEPT !.body = newMessage.body, !.type = "DELETE"]]]
    ELSE IF newMessage.type = "EDIT"
    THEN LET editedMessage == parseMessage(newMessage.body)
             index == findIndexById(chat.messages, editedMessage.id)
         IN  IF index = -1 THEN [outcome |-> "persisted", chat |-> chat]
             ELSE [outcome |-> "persisted",
                   chat |-> [chat EXCEPT !.messages[index + 1] = editedMessage]]
    ELSE [outcome |-> "persisted", chat |-> chat]

\* persistMessage(chatId, message): the message is added at the end of the log.
persistMessage(chat, message) ==
    [chat EXCEPT !.messages = Append(@, message)]

\* The log the chat starts with: "a" has one reply, "b" has none.
EditLog ==
    << LegacyMessage("a", "m1", "hi", "STRING", 1,
                     <<LegacyMessage("r1", userId, "hi", "STRING", 2, <<>>, "a")>>, ""),
       LegacyMessage("b", userId, "yo", "STRING", 3, <<>>, "") >>

\* The ids an operation may name: messages of the log, a reply, and an id that
\* is nowhere in the chat.
TargetIds == {"a", "b", "zz"}
ReplyIds == {"r1", "zz"}

\* The text an edit puts in place of the old one.
NewText == "yo"

\* The edited message an EDIT carries as its body: the message as the client
\* holds it (with or without its replies), the text changed.
EditedMessages ==
    { [m EXCEPT !.body = NewText, !.replies = r] :
        m \in { EditLog[i] : i \in 1..Len(EditLog) },
        r \in { <<>>, EditLog[1].replies } }
    \cup { LegacyMessage("zz", "m1", NewText, "STRING", 1, <<>>, "") }

\* What update_message hands to editMessage: an EDIT of a message, an EDIT or a
\* DELETE of a reply, a DELETE of a message.
UpdateMessages ==
    { LegacyMessage("e1", userId, em, "EDIT", 5, <<>>, "") : em \in EditedMessages }
    \cup { LegacyMessage(r, userId, NewText, ty, 5, <<>>, s) :
             r \in ReplyIds, ty \in {"EDIT", "DELETE"}, s \in {"a", "zz"} }
    \cup { LegacyMessage(i, userId, "deleted", "DELETE", 5, <<>>, "") : i \in TargetIds }

\* The two messages are of the same kind and equal.
SameMessage(m1, m2) ==
    /\ m1.type = m2.type
    /\ (m1.subject = "") = (m2.subject = "")
    /\ m1 = m2

EditInit ==
    /\ sigMsg = BlankMessage
    /\ sigOut = NoSigOut
    /\ keyRepo = <<>>
    /\ HttpIdleInit
    /\ SockIdleInit
    /\ BlockIdleInit
    /\ PageIdleInit
    /\ nestChat = NullChat
    /\ receipts = {}
    /\ inbox = [legacy |-> {}, nest |-> {}]
    /\ \E cursor \in {"", "b"} :
          legacyChat = [messages |-> EditLog,
                        read |-> [u \in Users |-> IF u = "m1" THEN cursor ELSE ""]]
    /\ edit = EditIdle
    /\ clock = 1

\* The id of the message appended to a log of this length.
NewId(len) == IF len = 2 THEN "n3" ELSE IF len = 3 THEN "n4" ELSE "n5"

\* Time passes.
EditTick ==
    /\ clock < MaxClock
    /\ clock' = clock + 1
    /\ UNCHANGED <<blockVars, sigVars, keyRepo, httpVars, sockVars, readVars, pageVars, edit>>

\* socket 'update_message': editMessage(chatId, parseMessage(message)).
EditApply(newMessage) ==
    /\ LET r == editMessage(legacyChat, newMessage, clock)
       IN  /\ legacyChat' = r.chat
           /\ edit' = [op |-> "edit", msg |-> newMessage, before |-> legacyChat,
                       outcome |-> r.outcome,
                       repeat |-> edit.op = "edit" /\ SameMessage(edit.msg, newMessage)]
    /\ UNCHANGED <<blockVars, sigVars, keyRepo, httpVars, sockVars, pageVars, clock,
                   nestChat, receipts, inbox>>

\* socket 'message' with a message that is no READ: persistMessage.
EditAppend ==
    /\ Len(legacyChat.messages) < MaxLog
    /\ LET message == LegacyMessage(NewId(Len(legacyChat.messages)), userId, "hi",
                                    "STRING", 4, <<>>, "")
       IN  /\ legacyChat' = persistMessage(legacyChat, message)
           /\ edit' = [op |-> "append", msg |-> message, before |-> legacyChat,
                       outcome |-> "persisted", repeat |-> FALSE]
    /\ UNCHANGED <<blockVars, sigVars, keyRepo, httpVars, sockVars, pageVars, clock,
                   nestChat, receipts, inbox>>

\* A READ receipt of m1 arrives: handleRead.
EditRead(target) ==
    /\ LET message == LegacyMessage("rd", "m1", target, "READ", 6, <<>>, "")
           r == handleRead(legacyChat, message)
       IN  /\ legacyChat' = r.chat
           /\ edit' = [op |-> "read", msg |-> message, before |-> legacyChat,
                       outcome |-> r.outcome, repeat |-> FALSE]
    /\ UNCHANGED <<blockVars, sigVars, keyRepo, httpVars, sockVars, pageVars, clock,
                   nestChat, receipts, inbox>>

EditNext ==
    \/ EditTick
    \/ \E m \in UpdateMessages : EditApply(m)
    \/ EditAppend
    \/ \E i \in TargetIds : EditRead(i)

SpecEdit == EditInit /\ [][EditNext]_vars

----------------------------------------------------------------------------
(* ChatService.getChatMessages on the stored log of one chat.               *)

\* longest stored log
MaxMessages == 4

\* largest limit of a query
MaxLimit == 3

\* largest page of a query
MaxPage == 2

\* `page` not supplied (null), and `from` not supplied (null).
NullPage == -1
NullFrom == ""

\* The ids of the messages of the log, in log order.
PageIds == <<"p1", "p2", "p3", "p4", "p5", "p6", "p7">>

\* ChatService.getChatMessages({ chatId, from, page, limit }) on the chat
\* getChat returned.  `if (page)` is false for null and for 0, `if (from)` for
\* null and for the empty string.
getChatMessages(chat, from, page, limit) ==
    LET parsedMessages == parseMessages(chat)
        end == IF page # NullPage /\ page # 0 THEN Len(parsedMessages) - page * limit
               ELSE IF from # NullFrom THEN findIndexById(parsedMessages, from)
               ELSE Len(parsedMessages)
        start == end - limit
    IN  [hasMore |-> start # 0, messages |-> slice(parsedMessages, start, end)]

PageInit ==
    /\ sigMsg = BlankMessage
    /\ sigOut = NoSigOut
    /\ keyRepo = <<>>
    /\ HttpIdleInit
    /\ SockIdleInit
    /\ BlockIdleInit
    /\ EditIdleInit
    /\ legacyChat = NullLegacyChat
    /\ receipts = {}
    /\ inbox = [legacy |-> {}, nest |-> {}]
    /\ nestChat = [NullChat EXCEPT !.chatId = PairId(userId, "m1"),
                                   !.contacts = {userId, "m1"}, !.adminId = "m1"]
    /\ query = QueryIdle

\* A message is added to the chat: addMessageToChat.
PageAppend ==
    /\ Len(nestChat.messages) < MaxMessages
    /\ LET n == Len(nestChat.messages) + 1
       IN  nestChat' = addMessageToChat(
                          nestChat, NewMessage(PageIds[n], "m1", userId, "hi", "STRING", n))
    /\ UNCHANGED <<blockVars, sigVars, keyRepo, httpVars, sockVars, editVars, pageVars,
                   legacyChat, receipts, inbox>>

\* A client asks for messages of the chat.
PageQuery(from, page, limit) ==
    /\ query' = [op |-> "query", log |-> parseMessages(nestChat), from |-> from,
                 page |-> page, limit |-> limit,
                 result |-> getChatMessages(nestChat, from, page, limit)]
    /\ UNCHANGED <<blockVars, sigVars, keyRepo, httpVars, sockVars, editVars, readVars>>

PageNext ==
    \/ PageAppend
    \/ \E from \in {NullFrom, "zz"} \cup { PageIds[i] : i \in 1..MaxMessages } :
          \E page \in {NullPage} \cup 0..MaxPage : \E limit \in 1..MaxLimit :
             PageQuery(from, page, limit)

SpecPage == PageInit /\ [][PageNext]_vars

----------------------------------------------------------------------------
(* ChatService operations on the chat repository: createChat,               *)
(* removeContactFromChat, addMessageToChat.                                 *)

\* ChatService.createChat(dto): the entity created from the DTO.
createChat(chatId, contacts, adminId, isGroup) ==
    [NullChat EXCEPT !.chatId = chatId, !.contacts = contacts, !.adminId = adminId,
                     !.isGroup = isGroup]

\* The chats a caller creates: a group of all users with any of them as admin,
\* and the 1:1 chat of the node with a contact.
NewChats ==
    { createChat(GroupId, Users, a, TRUE) : a \in Users }
    \cup { createChat(PairId(userId, u), {userId, u}, u, FALSE) : u \in Users \ {userId} }

ChatInit ==
    /\ sigMsg = BlankMessage
    /\ sigOut = NoSigOut
    /\ keyRepo = <<>>
    /\ HttpIdleInit
    /\ SockIdleInit
    /\ BlockIdleInit
    /\ EditIdleInit
    /\ PageIdleInit
    /\ ReadIdleInit

\* createChat: the chat is saved; getChat keeps answering the chat that was
\* saved first under a chat id.
ChatCreate(chat) ==
    /\ chats[chat.chatId] = NullChat
    /\ chats' = [chats EXCEPT ![chat.chatId] = chat]
    /\ UNCHANGED <<blockVars, sigVars, keyRepo, sockVars, editVars, pageVars, readVars,
                   blocked, contactRequests, http, delivery>>

\* removeContactFromChat({ chat, contactId }) on a stored chat.
ChatRemoveContact(c, contactId) ==
    /\ chats[c] # NullChat
    /\ chats' = [chats EXCEPT ![c] = removeContactFromChat(chats[c], contactId)]
    /\ UNCHANGED <<blockVars, sigVars, keyRepo, sockVars, editVars, pageVars, readVars,
                   blocked, contactRequests, http, delivery>>

\* addMessageToChat({ chat, message }) on a stored chat.
ChatAddMessage(c) ==
    /\ chats[c] # NullChat
    /\ Len(chats[c].messages) < MaxMessages
    /\ LET n == Len(chats[c].messages) + 1
       IN  chats' = [chats EXCEPT ![c] =
                        addMessageToChat(chats[c],
                                         NewMessage(PageIds[n], userId, c, "hi", "STRING", n))]
    /\ UNCHANGED <<blockVars, sigVars, keyRepo, sockVars, editVars, pageVars, readVars,
                   blocked, contactRequests, http, delivery>>

ChatNext ==
    \/ \E chat \in NewChats : ChatCreate(chat)
    \/ \E c \in ChatIds : \E u \in Users : ChatRemoveContact(c, u)
    \/ ChatAddMessage(GroupId)

SpecChat == ChatInit /\ [][ChatNext]_vars

----------------------------------------------------------------------------
(* The block list: socket events block_chat and unblock_chat.               *)

\* largest number of 'chat_blocked' events emitted
MaxBlockEvents == 4

\* blockList.filter(b => b != name)
withoutId(list, name) == SelectSeq(list, LAMBDA b : b # name)

BlockInit ==
    /\ sigMsg = BlankMessage
    /\ sigOut = NoSigOut
    /\ keyRepo = <<>>
    /\ HttpIdleInit
    /\ SockIdleInit
    /\ BlockIdleInit
    /\ EditIdleInit
    /\ PageIdleInit
    /\ ReadIdleInit

\* socket.on('block_chat') of the express service: an id already on the list is
\* ignored; else it is pushed, the list persisted and 'chat_blocked' emitted.
LegacyBlock(id) ==
    /\ Len(blockEvents) < MaxBlockEvents
    /\ blockOp' = [event |-> "block_chat", side |-> "legacy", id |-> id]
    /\ IF isBlocked(blockList, id)
       THEN UNCHANGED <<blockList, blockEvents>>
       ELSE /\ blockList' = Append(blockList, id)
            /\ blockEvents' = Append(blockEvents, [side |-> "legacy", id |-> id])
    /\ UNCHANGED <<sigVars, keyRepo, httpVars, sockVars, editVars, pageVars, readVars>>

\* socket.on('unblock_chat') of the express service.
LegacyUnblock(name) ==
    /\ blockOp' = [event |-> "unblock_chat", side |-> "legacy", id |-> name]
    /\ blockList' = withoutId(blockList, name)
    /\ UNCHANGED <<sigVars, keyRepo, httpVars, sockVars, editVars, pageVars, readVars,
                   blockEvents>>

BlockNext ==
    \/ \E id \in Senders : handleBlockChat(id)
    \/ \E id \in Senders : LegacyBlock(id)
    \/ \E id \in Senders : LegacyUnblock(id)

SpecBlock == BlockInit /\ [][BlockNext]_vars

----------------------------------------------------------------------------
(* Signature chain: nodes sign a message in turn, a verifier checks it.     *)

\* The private-key entity a signing node u may hold: none, one without key
\* material, or its own key.
PrivateEntities(u) ==
    { NullKey,
      [userId |-> userId, key |-> NoKeyMaterial, keyType |-> "Private"],
      [userId |-> userId, key |-> PrivateKeyOf(u), keyType |-> "Private"] }

\* The signatures a caller may hand to verifyMessageSignature for a message: one
\* of its chain, a detached signature of a user over the message as it is, or none.
CandidateSignatures(message) ==
    { message.signatures[i] : i \in 1..Len(message.signatures) }
        \cup { createBase64Signature(message, PrivateKeyOf(u)) : u \in Signers }
        \cup { UndefinedSignature }

\* The repositories the verifier may start with: per signer no entity, an entity
\* without key material, or the cached public key.
InitialKeyRepos ==
    { e0 \o e1 :
        e0 \in { <<>>, <<PublicEntity("m0", PublicKeyOf("m0"))>> },
        e1 \in { <<>>, <<PublicEntity("m1", NoKeyMaterial)>>,
                 <<PublicEntity("m1", PublicKeyOf("m1"))>> } }

SigInit ==
    /\ sigMsg \in { NewMessage("1", "m1", "g", b, "STRING", 1) : b \in Bodies }
    /\ sigOut = NoSigOut
    /\ keyRepo \in InitialKeyRepos
    /\ HttpIdleInit
    /\ SockIdleInit
    /\ BlockIdleInit
    /\ EditIdleInit
    /\ PageIdleInit
    /\ ReadIdleInit

\* A node u runs appendSignatureToMessage on the message with its own key entity.
SigSign(u, entity) ==
    /\ Len(sigMsg.signatures) < MaxChain
    /\ LET r == appendSignatureToMessage(sigMsg, entity)
       IN  /\ sigMsg' = r.message
           /\ sigOut' = [NoSigOut EXCEPT !.op = "sign", !.outcome = r.outcome,
                                         !.contact = u, !.entity = entity]
    /\ UNCHANGED <<blockVars, editVars, pageVars, keyRepo, httpVars, sockVars, readVars>>

\* The body is altered in transit.
SigTamper(b) ==
    /\ b # sigMsg.body
    /\ Len(sigMsg.signatures) > 0
    /\ sigMsg' = [sigMsg EXCEPT !.body = b]
    /\ sigOut' = [NoSigOut EXCEPT !.op = "tamper"]
    /\ UNCHANGED <<blockVars, editVars, pageVars, keyRepo, httpVars, sockVars, readVars>>

\* The verifier runs verifyMessageSignature for a contact and a signature.
SigVerify(c, signature, fetched) ==
    /\ LET r == verifyMessageSignature(keyRepo, c, sigMsg, signature, fetched)
       IN  /\ Len(r.repo) <= MaxKeys
           /\ keyRepo' = r.repo
           /\ sigOut' = [NoSigOut EXCEPT !.op = "verify", !.outcome = r.result,
                                         !.contact = c, !.signature = signature,
                                         !.fetched = fetched]
    /\ UNCHANGED <<blockVars, editVars, pageVars, sigMsg, httpVars, sockVars, readVars>>

SigNext ==
    \/ \E u \in Signers : \E e \in PrivateEntities(u) : SigSign(u, e)
    \/ \E b \in Bodies : SigTamper(b)
    \/ \E c \in Signers : \E s \in CandidateSignatures(sigMsg) :
          \E f \in {NoKeyMaterial, PublicKeyOf(c)} : SigVerify(c, s, f)

SpecSig == SigInit /\ [][SigNext]_vars

----------------------------------------------------------------------------
(* Properties of the inbound pipeline (checked under Spec).                 *)

\* The chat the request in hand was addressed to, as stored when it arrived.
TargetChat == getChat(http.before.chats, determineChatID(http.msg))

\* The request in hand has not changed the chats nor the contact records.
HttpNothingChanged ==
    /\ chats = http.before.chats
    /\ contactRequests = http.before.contactRequests

\* C1: an inbound message whose sender is in the blocked-contact set is rejected
\* with Blocked, whatever the size of the set and the offset/count of the
\* request; nothing is created or changed, no handler runs, nothing is forwarded.
C1_BlockedSenderRejected ==
    (http.pc # "idle" /\ http.wasBlocked)
    => /\ http.pc = "done"
       /\ http.outcome = "Blocked"
       /\ HttpNothingChanged
       /\ http.dispatched = "none"
       /\ delivery = NoDelivery

\* The request in hand is a SYSTEM message to an existing chat from a sender who
\* is not the admin of that chat.
SystemFromNonAdmin ==
    /\ http.pc # "idle"
    /\ http.msg.type = "SYSTEM"
    /\ TargetChat # NullChat
    /\ TargetChat.adminId # http.msg.from

\* C2 as stated: every inbound SYSTEM message whose sender is not the admin of its
\* chat is rejected with Unauthorized; the chat is unchanged, no handler is
\* dispatched, no delivery is attempted.
C2_AlwaysUnauthorized ==
    SystemFromNonAdmin
    => /\ http.pc = "done"
       /\ http.outcome = "Unauthorized"
       /\ HttpNothingChanged
       /\ http.dispatched = "none"
       /\ delivery = NoDelivery

\* C2: an inbound SYSTEM message whose sender is not the admin of its chat is
\* rejected: with Blocked when the blocked-contact check, which runs first, finds
\* the sender on the requested page, with Unauthorized otherwise; the chat is
\* unchanged, no handler is dispatched, no delivery is attempted.
C2_SystemFromNonAdminRejected ==
    ( /\ http.pc # "idle"
      /\ http.msg.type = "SYSTEM"
      /\ TargetChat # NullChat
      /\ TargetChat.adminId # http.msg.from )
    => /\ http.pc = "done"
       /\ http.outcome \in {"Blocked", "Unauthorized"}
       /\ ~http.wasBlocked => http.outcome = "Unauthorized"
       /\ HttpNothingChanged
       /\ http.dispatched = "none"
       /\ delivery = NoDelivery

C2_SystemRejected ==
    /\ http.pc = "done"
    /\ http.outcome = "Unauthorized"
    /\ http.msg.type = "SYSTEM"
    /\ TargetChat.isGroup
    /\ TargetChat.adminId # http.msg.from

\* C7: without private key material for the local identity the message is
\* neither signed as undefined nor sent to any location.
C7_NoPrivateKeyNothingSent ==
    getKey(keyRepo, "Private").key = NoKeyMaterial
    => /\ \A u \in Users : delivery[u] = "none"
       /\ http.signed # "undefined"

\* The sender's signature of the request in hand has failed: it is bad or missing,
\* or its verification did not yield true (the key could not be resolved).
SignatureFailed ==
    \/ ~SenderSignatureValid(http.msg)
    \/ http.validSignature \in {"false", "TypeError"}

C9_FanoutFailureIsolated ==
    ( /\ http.pc = "done"
      /\ http.msg.type \in RegisteredTypes
      /\ \E u \in Users : delivery[u] = "error" )
    => /\ http.outcome # "TransportError"
       /\ http.dispatched = http.msg.type

\* C10: handleGroupAdmin is over (the controller has moved on or answered) only
\* when every delivery it started has finished or failed.
C10_WaitForAll ==
    http.pc \in {"handle", "done"} => \A u \in Users : delivery[u] # "pending"

\* The request in hand passed the blocked-contact check and is addressed to a
\* chat id that has no stored chat.
ChatMissing ==
    /\ http.pc # "idle"
    /\ http.outcome # "Blocked"
    /\ TargetChat = NullChat

\* C18: handling a message whose chat id has no stored chat fabricates nothing (no
\* chat is created, nothing is appended, handled or sent) and the caller gets a
\* NotFound outcome, no unrelated failure.
C18_MissingChatNotFound ==
    ChatMissing
    => /\ http.pc = "done"
       /\ http.outcome = "NotFound"
       /\ HttpNothingChanged
       /\ http.dispatched = "none"
       /\ delivery = NoDelivery

\* C18 (the part the code keeps): nothing is created, changed, handled or sent.
C18_MissingChatNothingFabricated ==
    ChatMissing
    => /\ http.pc = "done"
       /\ HttpNothingChanged
       /\ http.dispatched = "none"
       /\ delivery = NoDelivery

\* A fan-out delivery of the request in hand has been started.
FanoutStarted == \E u \in Users : delivery[u] # "none"

\* C11: a fan-out delivery happens only when the local node is the admin of the
\* group chat, and only after the type handler of the message has completed
\* successfully; a message whose handler fails or is missing is never forwarded.
C11_FanoutAfterHandler ==
    FanoutStarted
    => /\ http.chat.isGroup
       /\ http.chat.adminId = userId
       /\ http.dispatched = http.msg.type
       /\ http.outcome = "ok"

\* C11 (the part the code keeps): deliveries are started only by the admin of a
\* group chat, to the other members of that chat.
C11_FanoutOnlyByAdmin ==
    FanoutStarted
    => /\ http.chat.isGroup
       /\ http.chat.adminId = userId
       /\ \A u \in Users : delivery[u] # "none" => u \in http.chat.contacts \ {userId}

\* C24: dispatch is total: for every admitted inbound message, of whatever
\* type, line 63 invokes the handler registered for its type.
C24_DispatchTotal ==
    [][ (http.pc = "handle" /\ http'.pc = "done")
        => http'.dispatched = http.msg.type ]_vars

\* C24 for the types that have a handler registered, which the code keeps.
C24_RegisteredDispatched ==
    [][ (http.pc = "handle" /\ http'.pc = "done" /\ http.msg.type \in RegisteredTypes)
        => http'.dispatched = http.msg.type ]_vars

\* C27: when a member sends a message to the group, the admin node attempts
\* delivery to the other members only: never to its own location and not back to
\* the sender of the message.
C27_FanoutRecipients ==
    \A u \in Users : delivery[u] # "none" => (u # userId /\ u # http.msg.from)

\* C27, the part the code keeps: the admin node never delivers to itself.
C27_NeverToSelf == delivery[userId] = "none"

----------------------------------------------------------------------------
(* Properties of the socket pipeline (checked under SpecSock).              *)

\* The ids of the messages in the stored log of a chat.
StoredIds(chatId) ==
    { parseStoredMessage(chats[chatId].messages[i]).id :
        i \in 1..Len(chats[chatId].messages) }

\* C3: when two messages for the same chat have been handled concurrently and
\* both were appended and saved, the stored chat holds both.
C3_NoLostUpdate ==
    \A t1, t2 \in Tasks :
        ( /\ t1 # t2
          /\ sock[t1].outcome = "persisted"
          /\ sock[t2].outcome = "persisted"
          /\ sock[t1].chat.chatId = sock[t2].chat.chatId )
        => {sock[t1].msg.id, sock[t2].msg.id} \subseteq StoredIds(sock[t1].chat.chatId)

\* C18 on the socket path (the part the code keeps): a message to a chat id
\* without stored chat is dropped; no chat is created, nothing is appended and no
\* event is emitted.
C18_SocketNothingFabricated ==
    \A t \in Tasks :
        (sock[t].pc = "done" /\ sock[t].outcome = "no chat")
        => /\ chats[sock[t].msg.from \o "-" \o sock[t].msg.to] = NullChat
           /\ \A i \in 1..Len(emitted) : emitted[i] # sock[t].msg.id

\* The 'message' event for the message of task t has been emitted to the clients.
Notified(t) == \E i \in 1..Len(emitted) : emitted[i] = sock[t].msg.id

\* C12: a 'message' notification is emitted only after the local persist of the
\* mutation it announces has succeeded, and not when the mutation is discarded.
C12_NotifyAfterCommit ==
    \A t \in Tasks :
        Notified(t) => sock[t].outcome \in {"persisted", "read saved"}

\* C12 (the part the code keeps): at most one 'message' event per socket message.
C12_NotifyAtMostOnce ==
    \A i, j \in 1..Len(emitted) : emitted[i] = emitted[j] => i = j

\* The stored log of some chat holds a message of this type.
LoggedType(type) ==
    \E c \in ChatIds : \E i \in 1..Len(chats[c].messages) :
        parseStoredMessage(chats[c].messages[i]).type = type

\* C22: SYSTEM messages never enter the message log: no stored log holds an
\* entry appended from a SYSTEM-typed message.
C22_SystemNeverLogged == ~LoggedType("SYSTEM")

\* C23 on the socket path: the step of handleMessageRead for a READ of the
\* local client leaves the messages, contacts and admin of every chat unchanged.
C23_SocketReadLeavesLog ==
    [][ (\E t \in Tasks : sock[t].pc = "read" /\ sock'[t].pc = "done")
        => \A c \in ChatIds :
              /\ chats'[c].messages = chats[c].messages
              /\ chats'[c].contacts = chats[c].contacts
              /\ chats'[c].adminId = chats[c].adminId ]_vars

\* C34: every message the socket pipeline signs, persists or sends has `from`
\* equal to the local user id, whatever the client supplied, and its signature
\* was made over the message with `from` already overwritten.
C34_SenderNotSpoofed ==
    \A t \in Tasks :
        sock[t].pc # "idle"
        => /\ sock[t].msg.from = userId
           /\ \A i \in 1..Len(sock[t].msg.signatures) :
                 sock[t].msg.signatures[i].data.from = userId
           /\ \A c \in ChatIds : \A i \in 1..Len(chats[c].messages) :
                 parseStoredMessage(chats[c].messages[i]).id = sock[t].msg.id
                 => /\ parseStoredMessage(chats[c].messages[i]).from = userId
                    /\ \A j \in 1..Len(parseStoredMessage(chats[c].messages[i]).signatures) :
                          parseStoredMessage(chats[c].messages[i]).signatures[j].data.from
                             = userId

\* A message the client sent with another user's id as `from` has been signed
\* and persisted with the local user id.
C34_SpoofedFromOverwritten ==
    \E t \in Tasks :
        /\ sock[t].client = "m1"
        /\ sock[t].outcome = "persisted"
        /\ Len(sock[t].msg.signatures) = 1
        /\ sock[t].msg.from = userId
        /\ \E i \in 1..Len(chats[sock[t].chat.chatId].messages) :
              parseStoredMessage(chats[sock[t].chat.chatId].messages[i]) = sock[t].msg

----------------------------------------------------------------------------
(* Properties of the read receipts (checked under SpecRead).                *)

\* The time stamp of the message with this id in the log (0: not in the log).
TimeStampOf(id) == findMessage(ReadLog, id).timeStamp

\* The latest time stamp among the targets of the receipts.
LatestTarget ==
    CHOOSE ts \in { TimeStampOf(r.body) : r \in receipts } :
        \A r \in receipts : TimeStampOf(r.body) <= ts

\* C4: once all READ receipts of the sender have arrived at handleMessageRead, in
\* whatever order, the chat's read list names a target with the latest time stamp.
C4_NestCursorIsLatest ==
    inbox.nest = {}
    => \E i \in 1..Len(nestChat.read) :
          /\ nestChat.read[i] \in { r.body : r \in receipts }
          /\ TimeStampOf(nestChat.read[i]) = LatestTarget

\* C4 for handleRead of the express service: once all receipts have arrived, the
\* sender's cursor is a message at least as late as every target, and it is a
\* target unless the cursor it started with was later than all of them.
C4_LegacyCursorIsLatest ==
    inbox.legacy = {}
    => /\ TimeStampOf(legacyChat.read[ReadSender]) >= LatestTarget
       /\ \/ /\ legacyChat.read[ReadSender] \in { r.body : r \in receipts }
             /\ TimeStampOf(legacyChat.read[ReadSender]) = LatestTarget
          \/ TimeStampOf(legacyChat.read[ReadSender]) > LatestTarget

\* The receipt a step of a handler has taken from its inbox.
Arrived(handler) == CHOOSE r \in inbox[handler] \ inbox'[handler] : TRUE

\* A READ with this target is to be applied over this cursor ("": no cursor yet):
\* the target is no earlier than the message the cursor names.
ReadDue(cursor, target) ==
    cursor = "" \/ TimeStampOf(target) >= TimeStampOf(cursor)

\* The READ rule at handleRead of the express service, for a cursor that is
\* absent or names a message of the log.
LegacyReadRule ==
    (inbox'.legacy # inbox.legacy /\ legacyChat.read[ReadSender] \in LogIds \cup {""})
    => LET r == Arrived("legacy")
       IN  IF ReadDue(legacyChat.read[r.from], r.body)
           THEN legacyChat' = [legacyChat EXCEPT !.read[r.from] = r.body]
           ELSE legacyChat' = legacyChat

\* The READ rule at handleMessageRead for a sender without cursor: the receipt
\* is applied, the chat's read list names its target afterwards.
NestReadRule ==
    (inbox'.nest # inbox.nest /\ findIndex(nestChat.read, ReadSender) = -1)
    => LET r == Arrived("nest")
       IN  \E i \in 1..Len(nestChat'.read) : nestChat'.read[i] = r.body

\* C21: a READ from s with body b sets the cursor of s to b iff b is no earlier
\* than the message recorded for s, in particular when s has no cursor yet and
\* when the time stamps are equal; otherwise the chat is unchanged.
C21_ReadApplicationRule == [][LegacyReadRule /\ NestReadRule]_vars

\* C21 at handleRead of the express service, which keeps the rule.
C21_LegacyReadApplicationRule == [][LegacyReadRule]_vars

\* C23: handling a READ, applied or discarded, leaves the messages, the contacts
\* and the admin of the chat unchanged; only the sender's read cursor may change.
C23_ReadLeavesLog ==
    [][ /\ inbox'.legacy # inbox.legacy
           => legacyChat' = [legacyChat EXCEPT !.read[Arrived("legacy").from] =
                                                  legacyChat'.read[Arrived("legacy").from]]
        /\ inbox'.nest # inbox.nest
           => /\ nestChat'.messages = nestChat.messages
              /\ nestChat'.contacts = nestChat.contacts
              /\ nestChat'.adminId = nestChat.adminId ]_vars

\* A READ has been applied: the sender's cursor has moved to a target of the
\* receipts that have arrived, and the log is the one the chat started with.
C23_ReadApplied ==
    /\ emitted # <<>>
    /\ \E r \in receipts \ inbox.legacy : legacyChat.read[ReadSender] = r.body
    /\ legacyChat.messages = ReadLog

----------------------------------------------------------------------------
(* Properties of the express message service (checked under SpecEdit).      *)

\* The last operation applied, for the second time in a row, the same EDIT.
SameEditAgain == edit.op = "edit" /\ edit.repeat /\ edit.msg.type = "EDIT"

\* C13: applying the same EDIT message twice (its target a message or a reply)
\* yields the same chat as applying it once.
C13_EditIdempotent ==
    SameEditAgain => legacyChat = edit.before

\* C13 for the EDIT of a top-level message, which the code keeps: the second
\* application leaves the chat as the first one left it.
C13_MessageEditIdempotent ==
    (SameEditAgain /\ edit.msg.subject = "") => legacyChat = edit.before

\* C13 for the EDIT of a reply: the second application changes nothing but the
\* reply's `updated` instant.
C13_ReplyEditKeepsBody ==
    (SameEditAgain /\ edit.msg.subject # "")
    => /\ legacyChat.read = edit.before.read
       /\ Len(legacyChat.messages) = Len(edit.before.messages)
       /\ \A i \in 1..Len(legacyChat.messages) :
             /\ [legacyChat.messages[i] EXCEPT !.replies = <<>>]
                   = [edit.before.messages[i] EXCEPT !.replies = <<>>]
             /\ Len(legacyChat.messages[i].replies) = Len(edit.before.messages[i].replies)
             /\ \A j \in 1..Len(legacyChat.messages[i].replies) :
                   [legacyChat.messages[i].replies[j] EXCEPT !.updated = 0]
                      = [edit.before.messages[i].replies[j] EXCEPT !.updated = 0]

\* A top-level EDIT that found its target has been applied twice in a row.
C13_MessageEditedTwice ==
    /\ SameEditAgain
    /\ edit.msg.subject = ""
    /\ findIndexById(legacyChat.messages, edit.msg.body.id) # -1
    /\ legacyChat.messages # EditLog

\* The id is the id of no message of the log.
NotInLog(log, id) == findIndexById(log, id) = -1

\* The last operation was an EDIT or DELETE of a reply that is not there: no
\* message has the subject as id, or that message has no reply with the id.
ReplyTargetMissing ==
    /\ edit.op = "edit"
    /\ edit.msg.subject # ""
    /\ \/ NotInLog(edit.before.messages, edit.msg.subject)
       \/ NotInLog(edit.before.messages[
                      findIndexById(edit.before.messages, edit.msg.subject) + 1].replies,
                   edit.msg.id)

\* The last operation was an EDIT of a top-level message that is not in the log.
EditTargetMissing ==
    /\ edit.op = "edit"
    /\ edit.msg.subject = ""
    /\ edit.msg.type = "EDIT"
    /\ NotInLog(edit.before.messages, edit.msg.body.id)

\* The last operation was a DELETE of a top-level message that is not in the log.
DeleteTargetMissing ==
    /\ edit.op = "edit"
    /\ edit.msg.subject = ""
    /\ edit.msg.type = "DELETE"
    /\ NotInLog(edit.before.messages, edit.msg.id)

\* The last operation was a READ receipt for a message that is not in the log.
ReadTargetMissing ==
    /\ edit.op = "read"
    /\ NotInLog(edit.before.messages, edit.msg.body)

\* The last operation raised no error and left the chat as it was.
SilentNoOp == edit.outcome # "TypeError" /\ legacyChat = edit.before

\* C14: an EDIT, DELETE or READ whose target is not in the log (nor, for a reply,
\* in the parent's replies) raises no error and leaves the chat unchanged.
C14_TargetNotFoundNoOp ==
    (ReplyTargetMissing \/ EditTargetMissing \/ DeleteTargetMissing \/ ReadTargetMissing)
    => SilentNoOp

\* C14 for the targets of EDIT and of reply operations, which the code keeps.
C14_EditNotFoundNoOp ==
    (ReplyTargetMissing \/ EditTargetMissing) => SilentNoOp

\* C14 for DELETE: the chat is unchanged, but an error is raised.
C14_DeleteNotFoundThrows ==
    DeleteTargetMissing => edit.outcome = "TypeError" /\ legacyChat = edit.before

\* A step of editMessage with a message of this type, on a top-level message
\* (reply = FALSE) or on a reply.
EditStep(type, reply) ==
    /\ edit' # edit \/ legacyChat' # legacyChat
    /\ clock' = clock
    /\ edit'.op = "edit"
    /\ edit'.msg.type = type
    /\ (edit'.msg.subject # "") = reply

\* The reply the message names is in the chat: its parent is in the log and the
\* reply is among the parent's replies.
ReplyTargetExists(chat, m) ==
    /\ ~NotInLog(chat.messages, m.subject)
    /\ ~NotInLog(chat.messages[findIndexById(chat.messages, m.subject) + 1].replies, m.id)

\* The chat with the reply the message names changed to this value.
WithReply(chat, m, value) ==
    LET p == findIndexById(chat.messages, m.subject) + 1
        r == findIndexById(chat.messages[p].replies, m.id) + 1
    IN  [chat EXCEPT !.messages[p].replies[r] = value]

ReplyTarget(chat, m) ==
    LET p == findIndexById(chat.messages, m.subject) + 1
    IN  chat.messages[p].replies[findIndexById(chat.messages[p].replies, m.id) + 1]

\* An EDIT of a top-level message that exists: the entry keeps everything but its
\* body, which is the replacement body, and its `updated`, which is now.
MessageEditInPlace ==
    (EditStep("EDIT", FALSE) /\ ~NotInLog(legacyChat.messages, edit'.msg.body.id))
    => LET i == findIndexById(legacyChat.messages, edit'.msg.body.id) + 1
       IN  legacyChat' = [legacyChat EXCEPT !.messages[i] =
                             [@ EXCEPT !.body = edit'.msg.body.body, !.updated = clock]]

\* An EDIT of a reply that exists: the same for the reply.
ReplyEditInPlace ==
    (EditStep("EDIT", TRUE) /\ ReplyTargetExists(legacyChat, edit'.msg))
    => legacyChat' = WithReply(legacyChat, edit'.msg,
                               [ReplyTarget(legacyChat, edit'.msg) EXCEPT
                                   !.body = edit'.msg.body, !.updated = clock])

\* C25: after an EDIT whose target exists, top-level or reply, the target keeps
\* its position, id, from, timeStamp, signatures and replies, its body is the
\* replacement body and its `updated` is stamped; every other message is unchanged.
C25_EditInPlace == [][MessageEditInPlace /\ ReplyEditInPlace]_vars

\* C25 for replies, which editReply keeps.
C25_ReplyEditInPlace == [][ReplyEditInPlace]_vars

\* C25 for top-level messages, the part editMessage keeps: the entry at the
\* target's position has the target's id and the replacement body, and every
\* other message is unchanged.
C25_MessageEditKeepsPlace ==
    [][ (EditStep("EDIT", FALSE) /\ ~NotInLog(legacyChat.messages, edit'.msg.body.id))
        => LET i == findIndexById(legacyChat.messages, edit'.msg.body.id) + 1
           IN  /\ Len(legacyChat'.messages) = Len(legacyChat.messages)
               /\ legacyChat'.messages[i].id = edit'.msg.body.id
               /\ legacyChat'.messages[i].body = edit'.msg.body.body
               /\ \A j \in 1..Len(legacyChat.messages) :
                     j # i => legacyChat'.messages[j] = legacyChat.messages[j] ]_vars

\* A DELETE of a top-level message that exists: the entry stays where it is, with
\* its replies; its body is the body of the DELETE message and its type DELETE.
MessageDeleteTombstone ==
    (EditStep("DELETE", FALSE) /\ ~NotInLog(legacyChat.messages, edit'.msg.id))
    => LET i == findIndexById(legacyChat.messages, edit'.msg.id) + 1
       IN  legacyChat' = [legacyChat EXCEPT !.messages[i] =
                             [@ EXCEPT !.body = edit'.msg.body, !.type = "DELETE"]]

\* A DELETE of a reply that exists: the reply stays where it is; its body is the
\* body of the DELETE message and its type DELETE.
ReplyDeleteTombstone ==
    (EditStep("DELETE", TRUE) /\ ReplyTargetExists(legacyChat, edit'.msg))
    => /\ ReplyTargetExists(legacyChat', edit'.msg)
       /\ legacyChat' = WithReply(legacyChat, edit'.msg, ReplyTarget(legacyChat', edit'.msg))
       /\ ReplyTarget(legacyChat', edit'.msg).body = edit'.msg.body
       /\ ReplyTarget(legacyChat', edit'.msg).type = "DELETE"

\* C26: after a DELETE whose target exists, a top-level message or a reply, the
\* target is still in the log at the same position, its body is the tombstone
\* content of the DELETE message and its type is DELETE; replies are kept.
C26_DeleteTombstone == [][MessageDeleteTombstone /\ ReplyDeleteTombstone]_vars

\* C26 for top-level messages, which editMessage keeps.
C26_MessageDeleteTombstone == [][MessageDeleteTombstone]_vars

----------------------------------------------------------------------------
(* Messages are not removed from a log (SpecSock and SpecEdit).             *)

\* The log new still holds every message of the log old, in the same relative
\* order, and is at least as long.
KeepsLog(old, new) ==
    /\ Len(new) >= Len(old)
    /\ \A i \in 1..Len(old) : ~NotInLog(new, old[i].id)
    /\ \A i, k \in 1..Len(old) :
          i < k => findIndexById(new, old[i].id) < findIndexById(new, old[k].id)

\* C15: no handling of a message removes a message from the stored log of a
\* chat: the log never gets shorter and the messages in it keep their order.
C15_NeverRemoved ==
    [][\A c \in ChatIds : KeepsLog(parseMessages(chats[c]), parseMessages(chats'[c]))]_vars

\* C15 for the express service, where one operation runs after the other:
\* append, EDIT, DELETE and READ keep every message of the log in place.
C15_LegacyNeverRemoved ==
    [][KeepsLog(legacyChat.messages, legacyChat'.messages)]_vars

----------------------------------------------------------------------------
(* Properties of getChatMessages (checked under SpecPage).                  *)

\* The last query was in cursor mode (from supplied, page not) and named a
\* message of the log.
CursorQuery ==
    /\ query.op = "query"
    /\ query.page = NullPage
    /\ ~NotInLog(query.log, query.from)

\* The up-to-limit messages of the log immediately before the one with the id.
MessagesBefore(log, id, limit) ==
    LET k == findIndexById(log, id)
    IN  IF k = 0 THEN <<>>
        ELSE SubSeq(log, IF k - limit < 0 THEN 1 ELSE k - limit + 1, k)

\* C19: in cursor mode the result is, in log order, the up-to-limit messages
\* immediately before the message with id `from`, also when fewer than limit
\* messages precede it.
C19_CursorMode ==
    CursorQuery => query.result.messages = MessagesBefore(query.log, query.from, query.limit)

\* C19 when at least limit messages precede the cursor, which the code keeps.
C19_CursorFullPage ==
    (CursorQuery /\ findIndexById(query.log, query.from) >= query.limit)
    => query.result.messages = MessagesBefore(query.log, query.from, query.limit)

\* The last query supplied both from and page.
BothSupplied ==
    /\ query.op = "query"
    /\ query.from # NullFrom
    /\ query.page # NullPage

\* C20: when both from and page are supplied, page 0 included, the result is the
\* offset-mode result for that page: from has no influence.
C20_PageTakesPrecedence ==
    BothSupplied
    => query.result = getChatMessages([nestChat EXCEPT !.messages =
                                          [i \in 1..Len(query.log) |->
                                             stringifyMessage(query.log[i])]],
                                      NullFrom, query.page, query.limit)

\* C20 for every page but 0, which the code keeps.
C20_PositivePageTakesPrecedence ==
    (BothSupplied /\ query.page # 0)
    => query.result = getChatMessages([nestChat EXCEPT !.messages =
                                          [i \in 1..Len(query.log) |->
                                             stringifyMessage(query.log[i])]],
                                      NullFrom, query.page, query.limit)

\* The last query was in offset mode: page supplied, from not.
OffsetQuery ==
    /\ query.op = "query"
    /\ query.from = NullFrom
    /\ query.page # NullPage

\* The page-th page of limit messages counting back from the newest message.
PageBack(log, page, limit) ==
    LET last == Len(log) - page * limit
        first == IF last - limit < 0 THEN 0 ELSE last - limit
    IN  IF last <= 0 THEN <<>> ELSE SubSeq(log, first + 1, last)

\* C31: in offset mode the result is the page-th page counting back from the
\* newest message: the messages at positions max(0, n-(N+1)*limit) up to
\* n-N*limit, in log order, and the empty list when n-N*limit <= 0.
C31_OffsetMode ==
    OffsetQuery => query.result.messages = PageBack(query.log, query.page, query.limit)

\* C31 for the pages that lie within the log, which the code keeps.
C31_OffsetFullPage ==
    (OffsetQuery /\ Len(query.log) - (query.page + 1) * query.limit >= 0)
    => query.result.messages = PageBack(query.log, query.page, query.limit)

\* The log holds a message older than the returned window: one before the
\* first message returned.
OlderThanWindow ==
    findIndexById(query.log, query.result.messages[1].id) > 0

\* C33: hasMore is true exactly when the log holds at least one message older
\* than the returned window, and false when the window reaches the oldest
\* message or the log has no more than the returned messages.
C33_HasMoreExact ==
    query.op = "query"
    => /\ query.result.messages # <<>> => (query.result.hasMore <=> OlderThanWindow)
       /\ query.log = <<>> => ~query.result.hasMore

\* C33, the part the code keeps: when hasMore is false and messages are
\* returned, the window starts at the oldest message of the log.
C33_NoMoreReachesOldest ==
    (query.op = "query" /\ ~query.result.hasMore /\ query.result.messages # <<>>)
    => ~OlderThanWindow

----------------------------------------------------------------------------
(* Properties of the signature chain (checked under SpecSig).               *)

\* The chain of m is well formed: every signature was made by some signer's own
\* private key over the message with exactly the signatures older than it.
ProperChain(m) ==
    \A i \in 1..Len(m.signatures) :
        \E u \in Signers :
            m.signatures[i] =
                createBase64Signature(
                    [m EXCEPT !.signatures = SubSeq(m.signatures, i + 1, Len(m.signatures))],
                    PrivateKeyOf(u))

\* The last call was a verification of the signature at 0-based index i of the
\* message, against the cached public key of the node that made it.
VerifiedAtIndex(i) ==
    /\ sigOut.op = "verify"
    /\ i < Len(sigMsg.signatures)
    /\ sigOut.signature = sigMsg.signatures[i + 1]
    /\ findIndex(sigMsg.signatures, sigOut.signature) = i
    /\ sigOut.signature.signer = PrivateKeyOf(sigOut.contact)
    /\ getPublicKeyByUserID(keyRepo, sigOut.contact).key = PublicKeyOf(sigOut.contact)

\* C5: on a message whose n >= 1 signatures were each prepended by a signer with
\* its own private key, verifyMessageSignature returns true for the signature at
\* every index 0..n-1 against that signer's public key, index 0 included.
C5_VerifyEveryIndex ==
    \A i \in 0..(MaxChain + 1) :
        (ProperChain(sigMsg) /\ VerifiedAtIndex(i)) => sigOut.outcome = "true"

\* C5 (the part the code keeps): the same for every index but 0.
C5_VerifyOlderIndexes ==
    \A i \in 1..(MaxChain + 1) :
        (ProperChain(sigMsg) /\ VerifiedAtIndex(i)) => sigOut.outcome = "true"

C5_OlderIndexVerified ==
    ProperChain(sigMsg) /\ VerifiedAtIndex(1) /\ sigOut.outcome = "true"

\* C6: when the message has no signatures, or the signature handed in is not an
\* element of message.signatures, verifyMessageSignature never returns true.
C6_FailsClosed ==
    ( /\ sigOut.op = "verify"
      /\ \/ Len(sigMsg.signatures) = 0
         \/ findIndex(sigMsg.signatures, sigOut.signature) = -1 )
    => sigOut.outcome # "true"

\* The last call verified a signature of the chain that was made before the
\* body of the message was altered.
TamperedVerified ==
    /\ sigOut.op = "verify"
    /\ findIndex(sigMsg.signatures, sigOut.signature) # -1
    /\ sigOut.signature.data.body # sigMsg.body

Resigned(message, u) ==
    appendSignatureToMessage(
        message, [userId |-> userId, key |-> PrivateKeyOf(u), keyType |-> "Private"]).message

\* The result of verifying, for contact c, the signature at 0-based index i of
\* the message in hand: on the message as it is, and on the message re-signed by u.
ResultBefore(i, c, f) ==
    verifyMessageSignature(keyRepo, c, sigMsg, sigMsg.signatures[i + 1], f).result

ResultAfter(i, c, f, u) ==
    verifyMessageSignature(keyRepo, c, Resigned(sigMsg, u), sigMsg.signatures[i + 1], f).result

\* C17: prepending a signature does not change the result of verifying an earlier
\* one: the signature at index i of m verifies at index i+1 of the re-signed
\* message exactly as it did on m.
C17_ChainableSameResult ==
    \A i \in 0..(Len(sigMsg.signatures) - 1) : \A c, u \in Signers :
        \A f \in {NoKeyMaterial, PublicKeyOf(c)} :
            ResultAfter(i, c, f, u) = ResultBefore(i, c, f)

\* C17 for the indexes the code verifies at all (every index but 0).
C17_OlderSameResult ==
    \A i \in 1..(Len(sigMsg.signatures) - 1) : \A c, u \in Signers :
        \A f \in {NoKeyMaterial, PublicKeyOf(c)} :
            ResultAfter(i, c, f, u) = ResultBefore(i, c, f)

\* C17, one direction: a signature that verified before the re-signing verifies
\* after it.
C17_NeverInvalidates ==
    \A i \in 0..(Len(sigMsg.signatures) - 1) : \A c, u \in Signers :
        \A f \in {NoKeyMaterial, PublicKeyOf(c)} :
            ResultBefore(i, c, f) = "true" => ResultAfter(i, c, f, u) = "true"

\* A step of verifyMessageSignature for a contact without cached public key
\* material, the fetch from the contact's location bringing nothing.
VerifyWithoutKey ==
    /\ sigOut' # sigOut \/ keyRepo' # keyRepo
    /\ sigOut'.op = "verify"
    /\ getPublicKeyByUserID(keyRepo, sigOut'.contact).key = NoKeyMaterial
    /\ sigOut'.fetched = NoKeyMaterial

\* C28: when no Public key is cached for the signer and the fetch brings no key,
\* verifyMessageSignature yields a failed verification (not valid, not a crash)
\* and no key entry is added to the repository.
C28_FetchFailureFails ==
    [][ VerifyWithoutKey => (sigOut'.outcome = "false" /\ keyRepo' = keyRepo) ]_vars

\* C28, the part the code keeps: the verification is never valid and no entry is
\* added; the result is false when the contact has a key entity.
C28_FetchFailureNeverValid ==
    [][ VerifyWithoutKey
        => /\ sigOut'.outcome # "true"
           /\ keyRepo' = keyRepo
           /\ getPublicKeyByUserID(keyRepo, sigOut'.contact) # NullKey
                 => sigOut'.outcome = "false" ]_vars

\* The entities of the repository that hold Public key material for contact c.
CachedKeys(c) ==
    { i \in 1..Len(keyRepo) :
        /\ keyRepo[i].userId = c
        /\ keyRepo[i].keyType = "Public"
        /\ keyRepo[i].key # NoKeyMaterial }

\* C29 (store): after any sequence of verifications the key repository holds at
\* most one Public key per contact id.
C29_OneKeyPerContact == \A c \in Users : Cardinality(CachedKeys(c)) <= 1

\* C29 (cache): once a Public key of the contact is in the repository, a
\* verification for that contact uses it and caches nothing more.
C29_CachedKeyIsUsed ==
    [][ (sigOut'.op = "verify" /\ CachedKeys(sigOut'.contact) # {})
        => keyRepo' = keyRepo ]_vars

\* C29, the part the code keeps: when the entity the lookup finds for the
\* contact holds key material, nothing is fetched and nothing is cached.
C29_FoundKeyIsUsed ==
    [][ (sigOut'.op = "verify"
         /\ getPublicKeyByUserID(keyRepo, sigOut'.contact).key # NoKeyMaterial)
        => keyRepo' = keyRepo ]_vars

\* A step of appendSignatureToMessage by a node that holds a private key.
SignStep ==
    /\ sigMsg' # sigMsg \/ sigOut' # sigOut
    /\ sigOut'.op = "sign"
    /\ sigOut'.entity.key # NoKeyMaterial

\* C30: appendSignatureToMessage with a private key present yields the message
\* with exactly one more signature: the new one at index 0, made over the
\* message with the signatures it had before the call, the earlier signatures
\* after it unchanged and in order; no other field of the message changes.
C30_SigningPrepends ==
    [][ SignStep
        => /\ sigOut'.outcome = "signed"
           /\ sigMsg' = [sigMsg EXCEPT !.signatures =
                           <<createBase64Signature(sigMsg, sigOut'.entity.key)>>
                               \o sigMsg.signatures] ]_vars

\* A message that had a signature has been signed again: it has two signatures,
\* the one at index 0 made over the message with the older one only.
C30_SignedTwice ==
    /\ sigOut.op = "sign"
    /\ sigOut.outcome = "signed"
    /\ Len(sigMsg.signatures) = 2
    /\ sigMsg.signatures[1].data.signatures = <<sigMsg.signatures[2]>>

----------------------------------------------------------------------------
(* Properties of the chat repository (checked under SpecChat).              *)

\* The membership rule of a chat: a group has its admin among its contacts, a
\* chat that is no group has exactly two contacts.
MembershipKept(chat) ==
    IF chat.isGroup THEN chat.adminId \in chat.contacts
    ELSE Cardinality(chat.contacts) = 2

\* C32: after any sequence of chat operations every group chat has its adminId
\* among its contacts and every non-group chat has exactly two contacts.
C32_MembershipInvariant ==
    \A c \in ChatIds : chats[c] # NullChat => MembershipKept(chats[c])

\* C32, the part the code keeps: createChat and addMessageToChat leave the
\* rule as it is; only a step that takes a contact away can break it.
C32_OnlyRemovalBreaks ==
    [][ \A c \in ChatIds :
          (chats'[c] # NullChat /\ ~MembershipKept(chats'[c]))
          => (chats[c] # NullChat
              /\ (~MembershipKept(chats[c]) \/ chats'[c].contacts # chats[c].contacts)) ]_vars

----------------------------------------------------------------------------
(* Properties of the block list (checked under SpecBlock).                  *)

\* A block_chat or unblock_chat event has been handled in this step.
BlockStep(event, side) ==
    /\ blockOp' # blockOp \/ blockList' # blockList \/ blocked' # blocked
          \/ blockEvents' # blockEvents
    /\ blockOp'.event = event
    /\ blockOp'.side = side

NoDuplicates(list) == \A i, j \in 1..Len(list) : list[i] = list[j] => i = j

\* The block-list rule at the express service: no id twice on the list, a
\* block_chat for an id on the list changes nothing and emits nothing, and after
\* unblock_chat the id is not on the list.
LegacyBlockRule ==
    /\ NoDuplicates(blockList')
    /\ (BlockStep("block_chat", "legacy") /\ isBlocked(blockList, blockOp'.id))
       => (blockList' = blockList /\ blockEvents' = blockEvents)
    /\ BlockStep("unblock_chat", "legacy") => ~isBlocked(blockList', blockOp'.id)

\* The rule at ChatGateway.handleBlockChat: a block_chat for an id that is
\* blocked already emits no further 'chat_blocked' event.
NestBlockRule ==
    (BlockStep("block_chat", "nest") /\ isBlocked(blocked, blockOp'.id))
    => blockEvents' = blockEvents

\* C35: each id occurs at most once in the blocked-contact set, a block_chat for
\* an id that is blocked already changes nothing and emits no further
\* chat_blocked event, and after unblock_chat(id) the id is absent from the set.
C35_BlockListNoDuplicates == [][LegacyBlockRule /\ NestBlockRule]_vars

\* C35 at the express service, which keeps the rule.
C35_LegacyBlockListNoDuplicates == [][LegacyBlockRule]_vars

====
